---- MODULE Spec2Model ----
(***************************************************************************)
(* A model of StoryStore (lib/client-api/src/story_store.ts): the story    *)
(* table, the kind and global metadata, the argument maps and the          *)
(* extract/publish path, as a state machine with one action per public     *)
(* method.                                                                 *)
(*                                                                         *)
(* JavaScript values are modelled by tokens: "undefined" is the absent     *)
(* value, "0" the number zero (one of the falsy values), "1" and "2" two   *)
(* truthy values.  A JavaScript object used as a mapping is a function     *)
(* whose domain is the set of its own keys; the story table, whose key     *)
(* order the code reads (Object.keys, Object.entries), is a sequence of    *)
(* entries in insertion order.                                             *)
(***************************************************************************)
EXTENDS Integers, Sequences, FiniteSets, TLC

\* ---------------------------------------------------------------- bounds
\* HooksContext objects the model creates (addStory calls that pass the guard).
MaxHooks == 3
\* Longest decorator sequence kept at global or kind scope.
MaxDecorators == 2
\* Longest parameter-enhancer pipeline.
MaxEnhancers == 1

StoryIds == {"a", "b", "c"}
KindNames == {"K1", "K2"}
EnhancerNames == {"inferY"}

\* ------------------------------------------------------------- JS values
Undefined == "undefined"

\* ToBoolean of a value token: undefined, 0, false and "" are the falsy ones.
Truthy(v) == v \notin {"undefined", "0", "false", ""}

EmptyMap == [k \in {} |-> Undefined]

\* A spread in which the keys of a win over those of b.
SpreadBroken(a, b) == [k \in DOMAIN a \cup DOMAIN b |->
                          IF k \in DOMAIN a THEN a[k] ELSE b[k]]

\* {...a, ...b}: every own key of b overwrites, whatever its value.
Spread(a, b) == [k \in DOMAIN a \cup DOMAIN b |->
                    IF k \in DOMAIN b THEN b[k] ELSE a[k]]

\* combineParameters on two plain objects whose values are not objects: a
\* later value replaces an earlier one unless the later value is undefined.
CombineMap(a, b) == [k \in DOMAIN a \cup DOMAIN b |->
                        IF k \in DOMAIN b /\ (b[k] # Undefined \/ k \notin DOMAIN a)
                        THEN b[k] ELSE a[k]]

\* combineParameters on a value that is not a plain object.
CombineScalar(a, b) == IF b # Undefined THEN b ELSE a

\* parameters.options is "undefined", an object without storySort ("noSort")
\* or an object with storySort ("sort"); objects merge key by key.
CombineOptions(a, b) ==
    IF a = "sort" \/ b = "sort" THEN "sort"
    ELSE IF a = "noSort" \/ b = "noSort" THEN "noSort"
    ELSE Undefined

\* A parameters object, with the keys the store reads.  argTypes and
\* globalArgTypes map an argument name to the defaultValue its entry
\* declares ("undefined" when the entry declares none).
NoParameters ==
    [docsOnly |-> Undefined, options |-> Undefined,
     args |-> EmptyMap, argTypes |-> EmptyMap,
     globalArgs |-> EmptyMap, globalArgTypes |-> EmptyMap]

Combine2(p, q) ==
    [docsOnly       |-> CombineScalar(p.docsOnly, q.docsOnly),
     options        |-> CombineOptions(p.options, q.options),
     args           |-> CombineMap(p.args, q.args),
     argTypes       |-> CombineMap(p.argTypes, q.argTypes),
     globalArgs     |-> CombineMap(p.globalArgs, q.globalArgs),
     globalArgTypes |-> CombineMap(p.globalArgTypes, q.globalArgTypes)]

\* combineParameters(...layers): applied left to right, later layers win.
RECURSIVE CombineFrom(_, _)
CombineFrom(acc, layers) ==
    IF layers = <<>> THEN acc
    ELSE CombineFrom(Combine2(acc, Head(layers)), Tail(layers))

combineParameters(layers) == CombineFrom(NoParameters, layers)

\* lodash pick(parameters, 'args', 'argTypes')
PickArgs(p) == [NoParameters EXCEPT !.args = p.args, !.argTypes = p.argTypes]

\* ------------------------------------------------------------------ state
VARIABLES
    channel,             \* TRUE when a channel was given to the constructor
    configuring,         \* _configuring
    globalArgs,          \* _globalArgs
    globalMetadata,      \* _globalMetadata: [parameters, decorators]
    kinds,               \* _kinds: kind name -> [order, parameters, decorators]
    stories,             \* _stories, in key (insertion) order
    parameterEnhancers,  \* _parameterEnhancers
    nextHook,            \* number of HooksContext objects created so far
    created,             \* history: kind names in the order their records were created
    lastOp,              \* the name of the last method called
    thrown,              \* what the last call threw: "none", "Error", "TypeError"
    cleaned,             \* the HooksContext objects the last call cleaned, in order
    emitted,             \* the events the last call emitted on the channel, in order
    selection,           \* _selection: {} at first, then [storyId, viewMode]
    error,               \* _error
    composed,            \* the decorator sequences the last call handed to applyDecorators
    passed,              \* the context the last call passed to the composed function, or Null
    invoked,             \* history: the HooksContext numbers of the registrations rendered so far
    awaitingRender       \* history: a selection was set since configuring began and it has not ended

store == <<configuring, globalArgs, globalMetadata, kinds, stories,
           parameterEnhancers, nextHook, created>>
vars == <<channel, configuring, globalArgs, globalMetadata, kinds, stories,
          parameterEnhancers, nextHook, created, lastOp, thrown, cleaned, emitted,
          selection, error, composed, passed, invoked, awaitingRender>>

Null == [isNull |-> TRUE]

Init ==
    /\ channel \in BOOLEAN
    /\ configuring = TRUE
    /\ globalArgs = EmptyMap
    /\ globalMetadata = [parameters |-> NoParameters, decorators |-> <<>>]
    /\ kinds = EmptyMap
    /\ stories = <<>>
    /\ parameterEnhancers = <<>>
    /\ nextHook = 0
    /\ created = <<>>
    /\ lastOp = "constructor"
    /\ thrown = "none"
    /\ cleaned = <<>>
    /\ emitted = <<>>
    /\ selection = EmptyMap
    /\ error = Undefined
    /\ composed = <<>>
    /\ passed = Null
    /\ invoked = {}
    /\ awaitingRender = FALSE

\* The store constructed without a channel (the constructor's channel is
\* optional).
InitNoChannel == Init /\ ~channel

\* ------------------------------------------------------- the story table
Ids(tbl) == {tbl[i].id : i \in DOMAIN tbl}

HasStory(id) == id \in Ids(stories)

\* _stories[id], for an id the table holds
Entry(tbl, id) == tbl[CHOOSE i \in DOMAIN tbl : tbl[i].id = id]

\* A delete with the test inverted: it keeps the entry of id alone.
DeleteKeyBroken(tbl, id) == SelectSeq(tbl, LAMBDA e : e.id = id)

\* delete _stories[id]
DeleteKey(tbl, id) == SelectSeq(tbl, LAMBDA e : e.id # id)

\* An assignment that leaves the entry it should replace where it is.
SetKeyKeepsOld(tbl, id, entry) == Append(tbl, entry)

\* _stories[id] = entry: an existing key keeps its place, a new key goes last
SetKey(tbl, id, entry) ==
    IF id \in Ids(tbl)
    THEN [i \in DOMAIN tbl |-> IF tbl[i].id = id THEN entry ELSE tbl[i]]
    ELSE Append(tbl, entry)

isStoryDocsOnly(parameters) == Truthy(parameters.docsOnly)

\* An includeStory that never filters.
includeStoryAlways(story, includeDocsOnly) == TRUE

includeStory(story, includeDocsOnly) ==
    IF includeDocsOnly THEN TRUE ELSE ~isStoryDocsOnly(story.parameters)

\* fromId: the entry with the current global args, or null. Every entry
\* addStory writes holds getDecorated, so only an unknown id gives null.
fromId(id) ==
    IF ~HasStory(id) THEN Null
    ELSE LET data == Entry(stories, id) IN
         [id |-> data.id, kind |-> data.kind, name |-> data.name,
          hooks |-> data.hooks, parameters |-> data.parameters,
          args |-> data.args, globalArgs |-> globalArgs]

raw(includeDocsOnly) ==
    LET kept == SelectSeq(stories, LAMBDA e : includeStory(e, includeDocsOnly))
    IN  [i \in DOMAIN kept |-> fromId(kept[i].id)]

getStoriesForKind(kind) == SelectSeq(raw(FALSE), LAMBDA s : s.kind = kind)

\* A sort that is not stable: equal keys come out in reverse input order.
SortTiesReversed(seq, keys) ==
    LET rank(i) == Cardinality({j \in DOMAIN seq :
                        keys[j] < keys[i] \/ (keys[j] = keys[i] /\ j > i)}) + 1
    IN  [r \in DOMAIN seq |-> seq[CHOOSE i \in DOMAIN seq : rank(i) = r]]

\* stable.inplace(seq, cmp) for a comparator that compares integer keys:
\* ascending keys, equal keys in input order.  keys[i] is the key of seq[i].
StableSort(seq, keys) ==
    LET rank(i) == Cardinality({j \in DOMAIN seq :
                        keys[j] < keys[i] \/ (keys[j] = keys[i] /\ j < i)}) + 1
    IN  [r \in DOMAIN seq |-> seq[CHOOSE i \in DOMAIN seq : rank(i) = r]]

\* The comparator a story declares at parameters.options.storySort is the
\* caller's; the model takes the alphabetical one (by story id).
IdRank(id) == CASE id = "a" -> 1 [] id = "b" -> 2 [] id = "c" -> 3 [] OTHER -> 4

toExtracted(e) ==
    [id |-> e.id, kind |-> e.kind, name |-> e.name,
     parameters |-> e.parameters, args |-> e.args]

\* An extract that takes the custom sort of whichever story declares one.
ExtractOrderAnySort ==
    IF \E i \in DOMAIN stories : stories[i].parameters.options = "sort"
    THEN StableSort(stories, [i \in DOMAIN stories |-> IdRank(stories[i].id)])
    ELSE StableSort(stories, [i \in DOMAIN stories |-> kinds[stories[i].kind].order])

\* The entries of the table in the order extract() gives them, before the
\* docs-only filter.
ExtractOrder ==
    IF stories = <<>> THEN stories
    ELSE LET withOptions == {i \in DOMAIN stories :
                                stories[i].parameters.options # Undefined}
             index == IF withOptions = {} THEN 0
                      ELSE CHOOSE i \in withOptions : \A j \in withOptions : i <= j
         IN  IF index # 0 /\ stories[index].parameters.options = "sort"
             THEN StableSort(stories, [i \in DOMAIN stories |-> IdRank(stories[i].id)])
             ELSE StableSort(stories,
                             [i \in DOMAIN stories |-> kinds[stories[i].kind].order])

extract(includeDocsOnly) ==
    LET kept == SelectSeq(ExtractOrder, LAMBDA e : includeStory(e, includeDocsOnly))
    IN  [i \in DOMAIN kept |-> toExtracted(kept[i])]

getStoriesForManager == extract(TRUE)

\* getStorybook: the kinds of raw() by ascending order, each with the names
\* of its stories in raw() order.
getStorybook ==
    LET r == raw(FALSE)
        present == {r[i].kind : i \in DOMAIN r}
        rankOf(k) == Cardinality({l \in present : kinds[l].order < kinds[k].order}) + 1
    IN  [n \in 1..Cardinality(present) |->
            LET k == CHOOSE l \in present : rankOf(l) = n
                mine == SelectSeq(r, LAMBDA s : s.kind = k)
            IN  [kind |-> k, stories |-> [i \in DOMAIN mine |-> mine[i].name]]]

\* ------------------------------------------------------------- the channel
Event(ev, id, payload) == [ev |-> ev, id |-> id, payload |-> payload]

\* pushToManager, then what follows it on the channel
PushToManagerEvents ==
    IF channel THEN <<Event("SET_STORIES", "-", getStoriesForManager)>> ELSE <<>>

\* ---------------------------------------------------------- the operations
\* What every call leaves behind besides the store: who was called, what it
\* threw, which hooks it cleaned and what it emitted.
Observed(op, err, hooks, events) ==
    /\ lastOp' = op
    /\ thrown' = err
    /\ cleaned' = hooks
    /\ emitted' = events
    /\ UNCHANGED channel

\* A call that renders no story.
NothingRendered ==
    /\ composed' = <<>>
    /\ passed' = Null
    /\ UNCHANGED invoked

\* The same for a call that renders nothing and leaves the selection and the
\* error slot alone: every method but storyFn, setSelection, setError and
\* clearError (and finishConfiguring, for the history it ends).
Outcome(op, err, hooks, events) ==
    /\ Observed(op, err, hooks, events)
    /\ NothingRendered
    /\ UNCHANGED <<selection, error, awaitingRender>>

\* A guard that never throws.
GuardAlwaysPasses(allowUnsafe) == FALSE

\* if (!this._configuring && !allowUnsafe) throw ...
GuardThrows(allowUnsafe) == ~configuring /\ ~allowUnsafe

Throw(op) ==
    /\ UNCHANGED store
    /\ Outcome(op, "Error", <<>>, <<>>)

startConfiguring ==
    /\ configuring' = TRUE
    /\ UNCHANGED <<globalArgs, globalMetadata, kinds, stories,
                   parameterEnhancers, nextHook, created>>
    /\ Outcome("startConfiguring", "none", <<>>, <<>>)

\* The defaults an argTypes object declares, as the code collects them:
\* if (defaultValue) acc[arg] = defaultValue
DefaultsOf(argTypes) ==
    [a \in {k \in DOMAIN argTypes : Truthy(argTypes[k])} |-> argTypes[a]]

\* The reduce of finishConfiguring over the previous global args:
\* if (acc[key]) acc[key] = previousValue
Reconcile(previous, parameters) ==
    LET defaultGlobalArgs == DefaultsOf(parameters.globalArgTypes)
        base == Spread(defaultGlobalArgs, parameters.globalArgs)
    IN  [k \in DOMAIN base |->
            IF k \in DOMAIN previous /\ Truthy(base[k]) THEN previous[k] ELSE base[k]]

finishConfiguring ==
    /\ configuring' = FALSE
    /\ globalArgs' = IF stories = <<>> THEN globalArgs
                     ELSE Reconcile(globalArgs, fromId(stories[1].id).parameters)
    /\ UNCHANGED <<globalMetadata, kinds, stories, parameterEnhancers, nextHook, created>>
    /\ Observed("finishConfiguring", "none", <<>>,
                PushToManagerEvents \o
                (IF channel THEN <<Event("RENDER_CURRENT_STORY", "-", <<>>)>> ELSE <<>>))
    /\ NothingRendered
    /\ awaitingRender' = FALSE
    /\ UNCHANGED <<selection, error>>

addGlobalMetadata(parameters, decorators) ==
    /\ Len(globalMetadata.decorators) + Len(decorators) <= MaxDecorators
    /\ globalMetadata' =
          [parameters |-> combineParameters(<<globalMetadata.parameters, parameters>>),
           decorators |-> globalMetadata.decorators \o decorators]
    /\ UNCHANGED <<configuring, globalArgs, kinds, stories,
                   parameterEnhancers, nextHook, created>>
    /\ Outcome("addGlobalMetadata", "none", <<>>, <<>>)

clearGlobalDecorators ==
    /\ globalMetadata' = [globalMetadata EXCEPT !.decorators = <<>>]
    /\ UNCHANGED <<configuring, globalArgs, kinds, stories,
                   parameterEnhancers, nextHook, created>>
    /\ Outcome("clearGlobalDecorators", "none", <<>>, <<>>)

\* An order taken from the number of stories instead of the number of kinds.
OrderByStoryCount(ks) == Len(stories)

\* order: Object.keys(this._kinds).length
NewOrder(ks) == Cardinality(DOMAIN ks)

\* ensureKind on a kinds object: a record is created only for an unknown name

EnsuredKinds(ks, kind) ==
    IF kind \in DOMAIN ks THEN ks
    ELSE [k \in DOMAIN ks \cup {kind} |->
             IF k = kind
             THEN [order |-> NewOrder(ks), parameters |-> NoParameters,
                   decorators |-> <<>>]
             ELSE ks[k]]

EnsuredCreated(ks, kind) == IF kind \in DOMAIN ks THEN created ELSE Append(created, kind)

ensureKind(kind) ==
    /\ kinds' = EnsuredKinds(kinds, kind)
    /\ created' = EnsuredCreated(kinds, kind)
    /\ UNCHANGED <<configuring, globalArgs, globalMetadata, stories,
                   parameterEnhancers, nextHook>>
    /\ Outcome("ensureKind", "none", <<>>, <<>>)

addKindMetadata(kind, parameters, decorators) ==
    LET ensured == EnsuredKinds(kinds, kind) IN
    /\ Len(ensured[kind].decorators) + Len(decorators) <= MaxDecorators
    /\ kinds' = [ensured EXCEPT
                   ![kind].parameters = combineParameters(<<@, parameters>>),
                   ![kind].decorators = @ \o decorators]
    /\ created' = EnsuredCreated(kinds, kind)
    /\ UNCHANGED <<configuring, globalArgs, globalMetadata, stories,
                   parameterEnhancers, nextHook>>
    /\ Outcome("addKindMetadata", "none", <<>>, <<>>)

addParameterEnhancer(parameterEnhancer) ==
    LET op == "addParameterEnhancer" IN
    IF stories # <<>> THEN Throw(op)
    ELSE /\ Len(parameterEnhancers) < MaxEnhancers
         /\ parameterEnhancers' = Append(parameterEnhancers, parameterEnhancer)
         /\ UNCHANGED <<configuring, globalArgs, globalMetadata, kinds, stories,
                        nextHook, created>>
         /\ Outcome(op, "none", <<>>, <<>>)

\* What an enhancer returns for the parameters accumulated so far.  Enhancers
\* are the caller's; "inferY" declares argTypes.y with defaultValue 1 unless
\* the parameters already declare y.
Enhance(enhancer, parameters) ==
    [keys |-> {"argTypes"},
     args |-> EmptyMap,
     argTypes |-> Spread([k \in {"y"} |-> "1"], parameters.argTypes)]

\* { ...accumlatedParameters, ...enhancer({...}) }
RECURSIVE RunEnhancers(_, _)
RunEnhancers(enhancers, acc) ==
    IF enhancers = <<>> THEN acc
    ELSE LET ret == Enhance(Head(enhancers), acc) IN
         RunEnhancers(Tail(enhancers),
                      [acc EXCEPT
                         !.args = IF "args" \in ret.keys THEN ret.args ELSE @,
                         !.argTypes = IF "argTypes" \in ret.keys THEN ret.argTypes ELSE @])

\* args: { ...defaultArgs, ...initialArgs } of addStory
InitialArgs(kindMetadata, storyParameters) ==
    LET argParametersBeforeEnhancement ==
            combineParameters(<<PickArgs(globalMetadata.parameters),
                                PickArgs(kindMetadata.parameters),
                                PickArgs(storyParameters)>>)
        enhanced == RunEnhancers(parameterEnhancers, argParametersBeforeEnhancement)
    IN  Spread(DefaultsOf(enhanced.argTypes), enhanced.args)

\* The scopes concatenated outside in.
DecoratorsGlobalFirst(storyDecorators, kindMetadata) ==
    globalMetadata.decorators \o kindMetadata.decorators \o storyDecorators

\* [...storyDecorators, ...kindMetadata.decorators, ...this._globalMetadata.decorators]
DecoratorsOf(storyDecorators, kindMetadata) ==
    storyDecorators \o kindMetadata.decorators \o globalMetadata.decorators

addStory(id, kind, name, storyParameters, storyDecorators, allowUnsafe) ==
    LET op == "addStory" IN
    IF GuardThrows(allowUnsafe) THEN Throw(op)
    ELSE LET ensured == EnsuredKinds(kinds, kind)
             kindMetadata == ensured[kind]
             entry == [id |-> id, kind |-> kind, name |-> name,
                       hooks |-> nextHook,
                       decorators |-> DecoratorsOf(storyDecorators, kindMetadata),
                       decorated |-> FALSE,
                       parameters |-> storyParameters,
                       args |-> InitialArgs(kindMetadata, storyParameters)]
         IN  /\ nextHook < MaxHooks
             /\ kinds' = ensured
             /\ created' = EnsuredCreated(kinds, kind)
             /\ stories' = SetKey(stories, id, entry)
             /\ nextHook' = nextHook + 1
             /\ UNCHANGED <<configuring, globalArgs, globalMetadata, parameterEnhancers>>
             /\ Outcome(op, "none", <<>>, <<>>)

remove(id, allowUnsafe) ==
    LET op == "remove" IN
    IF GuardThrows(allowUnsafe) THEN Throw(op)
    ELSE /\ stories' = DeleteKey(stories, id)
         /\ UNCHANGED <<configuring, globalArgs, globalMetadata, kinds,
                        parameterEnhancers, nextHook, created>>
         /\ Outcome(op, "none",
                    IF HasStory(id) THEN <<Entry(stories, id).hooks>> ELSE <<>>, <<>>)

\* cleanHooksForKind: cleanHooks(story.id) for each story of getStoriesForKind
cleanHooksForKind(kind) ==
    LET members == getStoriesForKind(kind)
    IN  [i \in DOMAIN members |-> Entry(stories, members[i].id).hooks]

removeStoryKind(kind, allowUnsafe) ==
    LET op == "removeStoryKind" IN
    IF GuardThrows(allowUnsafe) THEN Throw(op)
    ELSE IF kind \notin DOMAIN kinds
    THEN /\ UNCHANGED store
         /\ Outcome(op, "none", <<>>, <<>>)
    ELSE /\ kinds' = [kinds EXCEPT ![kind].parameters = NoParameters,
                                   ![kind].decorators = <<>>]
         /\ stories' = SelectSeq(stories, LAMBDA e : e.kind # kind)
         /\ UNCHANGED <<configuring, globalArgs, globalMetadata,
                        parameterEnhancers, nextHook, created>>
         /\ Outcome(op, "none", cleanHooksForKind(kind), <<>>)

\* The channel is dereferenced without a check: with no channel the emit
\* throws a TypeError, after the assignment.
updateGlobalArgs(newGlobalArgs) ==
    /\ globalArgs' = Spread(globalArgs, newGlobalArgs)
    /\ UNCHANGED <<configuring, globalMetadata, kinds, stories,
                   parameterEnhancers, nextHook, created>>
    /\ Outcome("updateGlobalArgs",
               IF channel THEN "none" ELSE "TypeError", <<>>,
               IF channel THEN <<Event("GLOBAL_ARGS_UPDATED", "-", globalArgs')>>
               ELSE <<>>)

updateStoryArgs(id, newArgs) ==
    LET op == "updateStoryArgs" IN
    IF ~HasStory(id) THEN Throw(op)
    ELSE /\ stories' = [i \in DOMAIN stories |->
                          IF stories[i].id = id
                          THEN [stories[i] EXCEPT !.args = Spread(@, newArgs)]
                          ELSE stories[i]]
         /\ UNCHANGED <<configuring, globalArgs, globalMetadata, kinds,
                        parameterEnhancers, nextHook, created>>
         /\ Outcome(op, IF channel THEN "none" ELSE "TypeError", <<>>,
                    IF channel
                    THEN <<Event("STORY_ARGS_UPDATED", id, Entry(stories', id).args)>>
                    ELSE <<>>)

pushToManager ==
    /\ UNCHANGED store
    /\ Outcome("pushToManager", "none", <<>>, PushToManagerEvents)

\* What a call that throws gives instead of a value.
Throws(err) == [throws |-> err]

\* A getAllParameters that layers the scopes the wrong way round.
getAllParametersGlobalWins(storyId) ==
    IF ~HasStory(storyId) THEN Throws("TypeError")
    ELSE LET data == Entry(stories, storyId) IN
         combineParameters(<<data.parameters, kinds[data.kind].parameters,
                             globalMetadata.parameters>>)

\* getAllParameters: data is undefined for an id the table does not hold, and
\* reading data.kind throws a TypeError.
getAllParameters(storyId) ==
    IF ~HasStory(storyId) THEN Throws("TypeError")
    ELSE LET data == Entry(stories, storyId) IN
         combineParameters(<<globalMetadata.parameters, kinds[data.kind].parameters,
                             data.parameters>>)

\* A composer fed from the metadata as it is when the story is first rendered.
ComposerInputAtRender(data) ==
    kinds[data.kind].decorators \o globalMetadata.decorators

\* applyDecorators(finalStoryFn, decorators): decorators is the array addStory
\* built, held by the closure of getDecorated.
ComposerInput(data) == data.decorators

\* A cache that never holds anything.
MemoizedNever(data) == FALSE

\* memoize(1) around a function without arguments: the first result is kept.
Memoized(data) == data.decorated

\* parameters: this.getFullParameters(id).  The class has no member of that
\* name (its method is getAllParameters), so the callee is undefined and the
\* call throws a TypeError.
getFullParameters(id) == Throws("TypeError")

\* storyFn of the entry the table holds for id.  The callee getDecorated() is
\* evaluated first, then the argument object, one property after the other,
\* then the composed function is called with it.
storyFn(id) ==
    /\ HasStory(id)
    /\ LET data == Entry(stories, id)
           parameters == getFullParameters(id)
           err == IF parameters = Throws("TypeError") THEN "TypeError" ELSE "none"
       IN  /\ composed' = IF Memoized(data) THEN <<>> ELSE <<ComposerInput(data)>>
           /\ stories' = [i \in DOMAIN stories |->
                             IF stories[i].id = id
                             THEN [stories[i] EXCEPT !.decorated = TRUE]
                             ELSE stories[i]]
           /\ passed' = IF err # "none" THEN Null
                         ELSE [id |-> data.id, kind |-> data.kind, name |-> data.name,
                               parameters |-> parameters, hooks |-> data.hooks,
                               args |-> data.args, globalArgs |-> globalArgs]
           /\ invoked' = invoked \cup {data.hooks}
           /\ UNCHANGED <<configuring, globalArgs, globalMetadata, kinds,
                          parameterEnhancers, nextHook, created, selection, error,
                          awaitingRender>>
           /\ Observed("storyFn", err, <<>>, <<>>)

clearError ==
    /\ error' = "null"
    /\ UNCHANGED <<store, selection, awaitingRender>>
    /\ NothingRendered
    /\ Observed("clearError", "none", <<>>, <<>>)

setError(err) ==
    /\ error' = err
    /\ UNCHANGED <<store, selection, awaitingRender>>
    /\ NothingRendered
    /\ Observed("setError", "none", <<>>,
                IF channel THEN <<Event("RENDER_CURRENT_STORY", "-", <<>>)>> ELSE <<>>)

\* A selection that asks for a render whatever the phase.
RenderOnSelectionAlways == TRUE

\* if (!this._configuring) this._channel.emit(Events.RENDER_CURRENT_STORY)
RenderOnSelection == ~configuring

setSelection(newSelection) ==
    /\ selection' = newSelection
    /\ awaitingRender' = configuring
    /\ UNCHANGED <<store, error>>
    /\ NothingRendered
    /\ Observed("setSelection", "none", <<>>,
                IF ~channel THEN <<>>
                ELSE <<Event("CURRENT_STORY_WAS_SET", "-", selection')>> \o
                     (IF RenderOnSelection
                      THEN <<Event("RENDER_CURRENT_STORY", "-", <<>>)>> ELSE <<>>))

\* ------------------------------------------------------ the specifications
DocsOnly == [NoParameters EXCEPT !.docsOnly = "true"]
CustomSort == [NoParameters EXCEPT !.options = "sort"]
Map1(k, v) == [a \in {k} |-> v]
Map2(k, v, l, w) == [a \in {k, l} |-> IF a = k THEN v ELSE w]

RegistryIds == {"a", "b"}
RegistryParameters == {NoParameters, DocsOnly}

\* The registry: stories of two kinds, some docs-only, added and removed
\* inside and outside the configuring phase, and published.
Next ==
    \/ startConfiguring
    \/ finishConfiguring
    \/ pushToManager
    \/ \E id \in RegistryIds, kind \in KindNames, p \in RegistryParameters,
          allowUnsafe \in BOOLEAN :
          addStory(id, kind, id, p, <<>>, allowUnsafe)
    \/ \E id \in RegistryIds, allowUnsafe \in BOOLEAN : remove(id, allowUnsafe)
    \/ \E kind \in KindNames, allowUnsafe \in BOOLEAN : removeStoryKind(kind, allowUnsafe)

Spec == Init /\ [][Next]_vars

\* Kinds: records created by ensureKind, addKindMetadata and addStory, and
\* reset by removeStoryKind.
NextKinds ==
    \/ startConfiguring
    \/ finishConfiguring
    \/ \E kind \in KindNames : ensureKind(kind)
    \/ \E kind \in KindNames : addKindMetadata(kind, DocsOnly, <<"d1">>)
    \/ \E id \in {"a", "b"}, kind \in KindNames :
          addStory(id, kind, id, NoParameters, <<>>, FALSE)
    \/ \E id \in {"a", "b"} : remove(id, FALSE)
    \/ \E kind \in KindNames : removeStoryKind(kind, TRUE)

SpecKinds == Init /\ [][NextKinds]_vars

\* Ordering: stories of two kinds, some declaring a custom sort, removed and
\* added again while the store is configuring.
NextOrder ==
    \/ pushToManager
    \/ \E id \in StoryIds, kind \in KindNames, p \in {NoParameters, CustomSort} :
          addStory(id, kind, id, p, <<>>, FALSE)
    \/ \E id \in StoryIds : remove(id, FALSE)
    \/ \E kind \in KindNames : removeStoryKind(kind, FALSE)

SpecOrder == Init /\ [][NextOrder]_vars

\* Metadata and enhancers, registered inside and outside the configuring phase.
NextMeta ==
    \/ startConfiguring
    \/ finishConfiguring
    \/ \E d \in {<<>>, <<"d1">>} : addGlobalMetadata(DocsOnly, d)
    \/ clearGlobalDecorators
    \/ \E kind \in KindNames, d \in {<<>>, <<"d1">>} : addKindMetadata(kind, DocsOnly, d)
    \/ \E e \in EnhancerNames : addParameterEnhancer(e)
    \/ \E id \in {"a"}, kind \in KindNames : addStory(id, kind, id, NoParameters, <<"d1">>, FALSE)
    \/ \E id \in {"a"} : remove(id, FALSE)

SpecMeta == Init /\ [][NextMeta]_vars

\* Story arguments: stories that declare args and argTypes, an enhancer, and
\* the updates that arrive on the channel.
ArgParameterChoices ==
    {[NoParameters EXCEPT !.argTypes = Map1("x", "1")],
     [NoParameters EXCEPT !.argTypes = Map1("x", "1"), !.args = Map1("x", "2")],
     [NoParameters EXCEPT !.argTypes = Map2("x", "0", "y", Undefined)]}

PatchChoices == {Map1("x", "2"), Map1("y", "0")}

NextArgs ==
    \/ startConfiguring
    \/ finishConfiguring
    \/ \E e \in EnhancerNames : addParameterEnhancer(e)
    \/ \E id \in {"a", "b"}, p \in ArgParameterChoices :
          addStory(id, "K1", id, p, <<>>, FALSE)
    \/ \E id \in {"a", "b"}, patch \in PatchChoices : updateStoryArgs(id, patch)

SpecArgs == Init /\ [][NextArgs]_vars

\* Global arguments: stories that declare globalArgs and globalArgTypes,
\* registered in successive configuring phases, and global updates.
GlobalArgParameterChoices ==
    {[NoParameters EXCEPT !.globalArgTypes = Map1("x", "1"), !.globalArgs = Map1("y", "2")],
     [NoParameters EXCEPT !.globalArgTypes = Map1("y", "0"), !.globalArgs = Map1("x", "0")]}

NextGlobalArgs ==
    \/ startConfiguring
    \/ finishConfiguring
    \/ \E id \in {"a", "b"}, p \in GlobalArgParameterChoices :
          addStory(id, "K1", id, p, <<>>, FALSE)
    \/ \E id \in {"a", "b"} : remove(id, FALSE)
    \/ \E patch \in PatchChoices : updateGlobalArgs(patch)

SpecGlobalArgs == Init /\ [][NextGlobalArgs]_vars

\* Parameter layering: the same keys declared with different values at the
\* three scopes, before and after the story is registered.
LayerChoices(v) ==
    {[NoParameters EXCEPT !.docsOnly = v],
     [NoParameters EXCEPT !.args = Map1("x", v)]}

NextParams ==
    \/ \E p \in LayerChoices("1") : addGlobalMetadata(p, <<>>)
    \/ \E kind \in KindNames, p \in LayerChoices("2") : addKindMetadata(kind, p, <<>>)
    \/ \E kind \in KindNames, p \in LayerChoices("true") \cup {NoParameters} :
          addStory("a", kind, "a", p, <<>>, FALSE)
    \/ \E kind \in KindNames : removeStoryKind(kind, FALSE)

SpecParams == Init /\ [][NextParams]_vars

\* Decorators: declared at the three scopes before and after a story is
\* registered, cleared and reset, and the story rendered.
NextDecorators ==
    \/ addGlobalMetadata(NoParameters, <<"g1", "g2">>)
    \/ clearGlobalDecorators
    \/ \E d \in {"k1", "k2"} : addKindMetadata("K1", NoParameters, <<d>>)
    \/ addStory("a", "K1", "a", NoParameters, <<"s1", "s2">>, FALSE)
    \/ storyFn("a")

SpecDecorators == InitNoChannel /\ [][NextDecorators]_vars

\* The decorators of a registered story against later changes of the
\* metadata: appended, cleared, and reset with the stories of another kind.
NextSnapshot ==
    \/ addGlobalMetadata(NoParameters, <<"g1">>)
    \/ clearGlobalDecorators
    \/ \E kind \in KindNames : addKindMetadata(kind, NoParameters, <<"k1">>)
    \/ \E d \in {<<>>, <<"s1">>} : addStory("a", "K1", "a", NoParameters, d, FALSE)
    \/ storyFn("a")
    \/ removeStoryKind("K2", FALSE)

SpecSnapshot == InitNoChannel /\ [][NextSnapshot]_vars

\* Selection: selections and errors set inside and outside the configuring
\* phase, next to the calls that publish.
SelectionChoices ==
    {[storyId |-> "a", viewMode |-> "story"], [storyId |-> "b", viewMode |-> "docs"]}

NextSelection ==
    \/ startConfiguring
    \/ finishConfiguring
    \/ \E newSelection \in SelectionChoices : setSelection(newSelection)
    \/ setError("err")
    \/ clearError
    \/ pushToManager
    \/ addStory("a", "K1", "a", NoParameters, <<>>, FALSE)
    \/ \E patch \in PatchChoices : updateGlobalArgs(patch)

SpecSelection == Init /\ [][NextSelection]_vars

\* Rendering: stories rendered before and after their arguments, the global
\* arguments, the metadata and the phase change.
RenderIds == {"a", "b"}
RenderParameters == [NoParameters EXCEPT !.argTypes = Map1("x", "1")]

NextRender ==
    \/ startConfiguring
    \/ finishConfiguring
    \/ addGlobalMetadata(DocsOnly, <<>>)
    \/ \E id \in RenderIds : addStory(id, "K1", id, RenderParameters, <<>>, FALSE)
    \/ \E id \in RenderIds : storyFn(id)
    \/ \E id \in RenderIds : updateStoryArgs(id, Map1("x", "2"))
    \/ updateGlobalArgs(Map1("x", "2"))

SpecRender == Init /\ [][NextRender]_vars

\* Sorting: stories with no options, with options that declare no storySort
\* and with options that declare one, in every table order.
PlainOptions == [NoParameters EXCEPT !.options = "noSort"]

NextSort ==
    \/ \E id \in StoryIds, kind \in KindNames,
          p \in {NoParameters, PlainOptions, CustomSort} :
          addStory(id, kind, id, p, <<>>, FALSE)
    \/ \E id \in StoryIds : remove(id, FALSE)

SpecSort == InitNoChannel /\ [][NextSort]_vars

\* Registering an id again: over an entry whose arguments were updated, next
\* to the removals that release handles.
NextOverwrite ==
    \/ \E id \in RenderIds, kind \in KindNames :
          addStory(id, kind, id, RenderParameters, <<>>, FALSE)
    \/ \E id \in RenderIds : updateStoryArgs(id, Map1("x", "2"))
    \/ \E id \in RenderIds : remove(id, FALSE)
    \/ \E kind \in KindNames : removeStoryKind(kind, FALSE)

SpecOverwrite == Init /\ [][NextOverwrite]_vars

\* ---------------------------------------------------------------- claims
Count(seq, h) == Cardinality({i \in DOMAIN seq : seq[i] = h})
IdsOf(seq) == {seq[i].id : i \in DOMAIN seq}
HooksOfKind(tbl, kind) == {tbl[i].hooks : i \in {j \in DOMAIN tbl : tbl[j].kind = kind}}

\* C1: addStory, remove and removeStoryKind called while the store is not
\* configuring and without allowUnsafe throw and leave the whole store as it
\* was, with no handle released; called while configuring or with allowUnsafe
\* they do not throw and do their work: the story is in the table under the
\* given kind with a new handle, the id is gone, no story of the kind is left.
C1_MutationGuard ==
    [][/\ \A id \in RegistryIds, kind \in KindNames, p \in RegistryParameters,
             allowUnsafe \in BOOLEAN :
             (lastOp' = "addStory" /\ addStory(id, kind, id, p, <<>>, allowUnsafe)) =>
                IF ~configuring /\ ~allowUnsafe
                THEN thrown' = "Error" /\ UNCHANGED store /\ cleaned' = <<>>
                ELSE /\ thrown' = "none"
                     /\ id \in Ids(stories')
                     /\ Entry(stories', id).kind = kind
                     /\ Entry(stories', id).parameters = p
                     /\ Entry(stories', id).hooks = nextHook
       /\ \A id \in RegistryIds, allowUnsafe \in BOOLEAN :
             (lastOp' = "remove" /\ remove(id, allowUnsafe)) =>
                IF ~configuring /\ ~allowUnsafe
                THEN thrown' = "Error" /\ UNCHANGED store /\ cleaned' = <<>>
                ELSE thrown' = "none" /\ id \notin Ids(stories')
       /\ \A kind \in KindNames, allowUnsafe \in BOOLEAN :
             (lastOp' = "removeStoryKind" /\ removeStoryKind(kind, allowUnsafe)) =>
                IF ~configuring /\ ~allowUnsafe
                THEN thrown' = "Error" /\ UNCHANGED store /\ cleaned' = <<>>
                ELSE /\ thrown' = "none"
                     /\ kind \in DOMAIN kinds =>
                           \A i \in DOMAIN stories' : stories'[i].kind # kind
      ]_vars

\* A guarded call was refused on a store that holds stories, after configuring ended.
C1_Witness ==
    /\ lastOp \in {"addStory", "remove", "removeStoryKind"}
    /\ thrown = "Error"
    /\ ~configuring
    /\ Len(stories) >= 2

\* C3 (as claimed): removeStoryKind on a known kind cleans the hooks of every
\* story of the kind in the table exactly once, docs-only stories included,
\* and no other hooks; removes those stories and no others; resets the kind's
\* parameters and decorators; on an unknown kind it changes nothing.
C3_RemoveKindReleasesEveryMember ==
    [][\A kind \in KindNames, allowUnsafe \in BOOLEAN :
          (removeStoryKind(kind, allowUnsafe) /\ thrown' = "none") =>
             IF kind \in DOMAIN kinds
             THEN /\ \A h \in HooksOfKind(stories, kind) : Count(cleaned', h) = 1
                  /\ \A i \in DOMAIN cleaned' : cleaned'[i] \in HooksOfKind(stories, kind)
                  /\ stories' = SelectSeq(stories, LAMBDA e : e.kind # kind)
                  /\ kinds'[kind].parameters = NoParameters
                  /\ kinds'[kind].decorators = <<>>
                  /\ \A other \in DOMAIN kinds \ {kind} : kinds'[other] = kinds[other]
             ELSE UNCHANGED store /\ cleaned' = <<>>
      ]_vars

\* C4: remove(id) that passes the guard deletes the entry of id, so that
\* fromId(id) is null afterwards, and cleans that entry's hooks once; for an
\* absent id it throws nothing, cleans nothing and leaves the table as it
\* was.  Every other entry stays, unchanged and in the same order.
C4_Remove ==
    [][\A id \in RegistryIds, allowUnsafe \in BOOLEAN :
          (remove(id, allowUnsafe) /\ (configuring \/ allowUnsafe)) =>
             /\ thrown' = "none"
             /\ fromId(id)' = Null
             /\ IF HasStory(id)
                THEN cleaned' = <<Entry(stories, id).hooks>>
                ELSE cleaned' = <<>> /\ stories' = stories
             /\ Ids(stories') = Ids(stories) \ {id}
             /\ \A other \in Ids(stories) \ {id} :
                   Entry(stories', other) = Entry(stories, other)
             /\ \A i, j \in DOMAIN stories :
                   (i < j /\ stories[i].id # id /\ stories[j].id # id) =>
                      \E m, n \in DOMAIN stories' :
                         m < n /\ stories'[m] = stories[i] /\ stories'[n] = stories[j]
      ]_vars

\* remove deleted one story of two and cleaned its hooks; the other is left.
C4_Witness ==
    /\ lastOp = "remove"
    /\ thrown = "none"
    /\ Len(cleaned) = 1
    /\ Len(stories) = 1

\* C10: a story whose own parameters set docsOnly is absent from raw(),
\* getStorybook() and extract() and present in getStoriesForManager() and in
\* the snapshot pushToManager sends; a story without docsOnly is in all five.
InStorybook(id) ==
    \E i \in DOMAIN getStorybook :
       \E j \in DOMAIN getStorybook[i].stories : getStorybook[i].stories[j] = id

C10_DocsOnlyFiltering ==
    /\ \A i \in DOMAIN stories :
          LET id == stories[i].id
              visible == stories[i].parameters.docsOnly # "true"
          IN  /\ (id \in IdsOf(raw(FALSE))) = visible
              /\ InStorybook(id) = visible
              /\ (id \in IdsOf(extract(FALSE))) = visible
              /\ id \in IdsOf(getStoriesForManager)
    /\ (lastOp = "pushToManager" /\ channel) =>
          /\ Len(emitted) = 1
          /\ emitted[1].ev = "SET_STORIES"
          /\ IdsOf(emitted[1].payload) = Ids(stories)

\* A snapshot was pushed from a table holding a docs-only and an ordinary story.
C10_Witness ==
    /\ lastOp = "pushToManager"
    /\ channel
    /\ \E i, j \in DOMAIN stories :
          /\ stories[i].parameters.docsOnly = "true"
          /\ stories[j].parameters.docsOnly # "true"

\* C2 (as claimed): addGlobalMetadata, addKindMetadata and
\* addParameterEnhancer called while the store is not configuring throw and
\* leave the global metadata, the kind records and the enhancers unchanged.
C2_MetadataGuard ==
    [][(~configuring /\ lastOp' \in {"addGlobalMetadata", "addKindMetadata",
                                     "addParameterEnhancer"}) =>
          /\ thrown' = "Error"
          /\ UNCHANGED <<globalMetadata, kinds, parameterEnhancers>>
      ]_vars

\* C8: with no story declaring a custom sort, extract() lists the stories by
\* the creation order of their kinds' records; two stories of one kind that
\* stay in the table keep their relative place from one call to the next, and
\* a story added under a new key comes after the stories of its kind already
\* there.  The creation order of the kinds only ever grows at its end, so a
\* kind whose stories are removed and added again is where it was.
PositionIn(seq, x) == CHOOSE i \in DOMAIN seq : seq[i] = x
NoCustomSort == \A i \in DOMAIN stories : stories[i].parameters.options # "sort"
Before(x, a, b) == \E i, j \in DOMAIN x : i < j /\ x[i].id = a /\ x[j].id = b

C8_OrderingStability ==
    [][(NoCustomSort /\ NoCustomSort') =>
          \A x \in {extract(FALSE)}, y \in {extract(FALSE)'} :
              /\ \A i, j \in DOMAIN y :
                    i < j => PositionIn(created', y[i].kind) <= PositionIn(created', y[j].kind)
              /\ IdsOf(y) = Ids(stories')
              /\ SubSeq(created', 1, Len(created)) = created
              /\ \A a, b \in Ids(stories) \cap Ids(stories') :
                    (/\ Entry(stories, a).kind = Entry(stories, b).kind
                     /\ Entry(stories', a).kind = Entry(stories', b).kind
                     /\ Before(x, a, b)) => Before(y, a, b)
              /\ \A a \in Ids(stories), b \in Ids(stories') \ Ids(stories) :
                    (a \in Ids(stories') /\ Entry(stories', a).kind = Entry(stories', b).kind)
                       => Before(y, a, b)
      ]_vars

\* The first kind lost its stories, a story was added to it again behind a
\* story of the second kind, and extract() puts it first.
C8_Witness ==
    /\ lastOp = "addStory"
    /\ NoCustomSort
    /\ Len(stories) = 2
    /\ nextHook = 3
    /\ kinds[stories[2].kind].order < kinds[stories[1].kind].order
    /\ extract(FALSE)[1].id = stories[2].id

\* C9: the orders of the kind records are pairwise distinct, the order of a
\* kind is the number of records created before its own, there is one record
\* per name ever ensured, and no operation changes an order once given.
KindOrderInvariant ==
    /\ DOMAIN kinds = {created[i] : i \in DOMAIN created}
    /\ \A i, j \in DOMAIN created : created[i] = created[j] => i = j
    /\ \A i \in DOMAIN created : kinds[created[i]].order = i - 1
    /\ \A k, l \in DOMAIN kinds : kinds[k].order = kinds[l].order => k = l

C9_KindOrder ==
    [][/\ KindOrderInvariant'
       /\ \A k \in DOMAIN kinds :
             k \in DOMAIN kinds' /\ kinds'[k].order = kinds[k].order
       /\ \A kind \in KindNames :
             (lastOp' = "ensureKind" /\ ensureKind(kind) /\ kind \in DOMAIN kinds)
                => kinds' = kinds
      ]_vars

\* Both kinds have records and the first one's stories were just removed.
C9_Witness ==
    /\ lastOp = "removeStoryKind"
    /\ Cardinality(DOMAIN kinds) = 2
    /\ \E k \in DOMAIN kinds :
          kinds[k].order = 0 /\ \A i \in DOMAIN stories : stories[i].kind # k
    /\ stories # <<>>

\* The argTypes addStory resolves for a story: the layered args/argTypes of
\* the three scopes after the enhancers.
ResolvedArgParameters(kind, storyParameters) ==
    RunEnhancers(parameterEnhancers,
        combineParameters(<<PickArgs(globalMetadata.parameters),
                            PickArgs(EnsuredKinds(kinds, kind)[kind].parameters),
                            PickArgs(storyParameters)>>))

\* C5 (as claimed): after addStory the story's args hold a key for every
\* entry of the resolved argTypes that declares a defaultValue, whatever the
\* value; the value of the key is the explicit args value when there is one
\* and the declared default otherwise; updateStoryArgs never drops a key.
C5_ArgumentDefaulting ==
    [][/\ \A id \in {"a", "b"}, p \in ArgParameterChoices :
             (lastOp' = "addStory" /\ addStory(id, "K1", id, p, <<>>, FALSE)
                /\ thrown' = "none") =>
                LET resolved == ResolvedArgParameters("K1", p)
                    args == Entry(stories', id).args
                IN  \A k \in DOMAIN resolved.argTypes :
                       resolved.argTypes[k] # Undefined =>
                          /\ k \in DOMAIN args
                          /\ args[k] = IF k \in DOMAIN resolved.args
                                       THEN resolved.args[k]
                                       ELSE resolved.argTypes[k]
       /\ lastOp' = "updateStoryArgs" =>
             \A i \in DOMAIN stories : DOMAIN stories[i].args \subseteq DOMAIN stories'[i].args
      ]_vars

\* C6: updateStoryArgs(id, patch) for a known id gives the story the map
\* that has the patch's value at every key of the patch and the old value at
\* every other key, changes nothing else in the store and, with a channel,
\* emits one STORY_ARGS_UPDATED with the id and the new map; for an unknown
\* id it throws, changes nothing and emits nothing.  Being configuring or not
\* makes no difference.
C6_UpdateStoryArgs ==
    [][\A id \in {"a", "b"}, patch \in PatchChoices :
          (lastOp' = "updateStoryArgs" /\ updateStoryArgs(id, patch)) =>
             IF id \in Ids(stories)
             THEN LET old == Entry(stories, id).args
                      new == Entry(stories', id).args
                  IN  /\ DOMAIN new = DOMAIN old \cup DOMAIN patch
                      /\ \A k \in DOMAIN new :
                            new[k] = IF k \in DOMAIN patch THEN patch[k] ELSE old[k]
                      /\ \A i \in DOMAIN stories :
                            IF stories[i].id = id
                            THEN stories'[i] = [stories[i] EXCEPT !.args = new]
                            ELSE stories'[i] = stories[i]
                      /\ Len(stories') = Len(stories)
                      /\ UNCHANGED <<configuring, globalArgs, globalMetadata, kinds,
                                     parameterEnhancers>>
                      /\ channel =>
                            /\ thrown' = "none"
                            /\ emitted' = <<Event("STORY_ARGS_UPDATED", id, new)>>
             ELSE thrown' = "Error" /\ UNCHANGED store /\ emitted' = <<>>
      ]_vars

\* After configuring ended, an update changed one key of a story and kept
\* another, beside a second story, and was announced.
C6_Witness ==
    /\ lastOp = "updateStoryArgs"
    /\ thrown = "none"
    /\ ~configuring
    /\ Len(stories) = 2
    /\ Len(emitted) = 1
    /\ \E i \in DOMAIN stories :
          /\ stories[i].id = emitted[1].id
          /\ stories[i].args = Map2("x", "1", "y", "0")

\* C7 (as claimed): finishConfiguring with a story in the table leaves the
\* global args with exactly the keys the first story's parameters declare
\* (the globalArgTypes entries with a defaultValue and the keys of
\* globalArgs); a key the previous global args held keeps its previous
\* value, whatever the old and new values are; any other key takes its
\* declared value, globalArgs before the default.
DeclaredGlobalArgs(parameters) ==
    Spread([k \in {a \in DOMAIN parameters.globalArgTypes :
                      parameters.globalArgTypes[a] # Undefined}
              |-> parameters.globalArgTypes[k]],
           parameters.globalArgs)

C7_GlobalArgsReconciliation ==
    [][(lastOp' = "finishConfiguring" /\ stories # <<>>) =>
          LET declared == DeclaredGlobalArgs(stories[1].parameters) IN
          /\ DOMAIN globalArgs' = DOMAIN declared
          /\ \A k \in DOMAIN declared :
                globalArgs'[k] = IF k \in DOMAIN globalArgs THEN globalArgs[k]
                                 ELSE declared[k]
      ]_vars

\* The value three layers give a key: the story's when the story declares
\* it, else the kind's, else the global one.
Layered(g, k, s) == IF s # Undefined THEN s ELSE IF k # Undefined THEN k ELSE g
At(map, x) == IF x \in DOMAIN map THEN map[x] ELSE Undefined

KindDecorators(kind) == IF kind \in DOMAIN kinds THEN kinds[kind].decorators ELSE <<>>

C12_DecoratorOrdering ==
    [][/\ \A d \in {"k1", "k2"} :
             (lastOp' = "addKindMetadata" /\ addKindMetadata("K1", NoParameters, <<d>>))
                => kinds'["K1"].decorators = Append(KindDecorators("K1"), d)
       /\ lastOp' = "addGlobalMetadata" =>
             globalMetadata'.decorators = globalMetadata.decorators \o <<"g1", "g2">>
       /\ lastOp' = "clearGlobalDecorators" => globalMetadata'.decorators = <<>>
       /\ lastOp' = "addStory" =>
             Entry(stories', "a").decorators =
                <<"s1", "s2">> \o KindDecorators("K1") \o globalMetadata.decorators
       /\ (lastOp' = "storyFn" /\ Entry(stories, "a").hooks \notin invoked) =>
             composed' = <<Entry(stories, "a").decorators>>
      ]_vars

\* A story registered with two decorators of its own, under a kind given k2
\* and then k1, with two global ones, was rendered: the composer got the six
\* in that order.
C12_Witness ==
    /\ lastOp = "storyFn"
    /\ composed = << <<"s1", "s2", "k2", "k1", "g1", "g2">> >>

\* C13 (as claimed): addParameterEnhancer called while the table holds a
\* story throws and leaves the enhancers as they were, and no call succeeds
\* once an addStory has succeeded, the table being empty again or not.
C13_EnhancersBeforeFirstStory ==
    [][lastOp' = "addParameterEnhancer" =>
          /\ stories # <<>> => (thrown' = "Error" /\ UNCHANGED parameterEnhancers)
          /\ thrown' = "none" => nextHook = 0
      ]_vars

\* The render requests among the events of a call.
RenderRequests(events) ==
    Cardinality({i \in DOMAIN events : events[i].ev = "RENDER_CURRENT_STORY"})

\* What setSelection does on a store with a channel: the selection is
\* stored, one acknowledgement carries it, and a render request follows it
\* exactly when the store is not configuring; and every finishConfiguring
\* emits one render request.
SelectionAndFinish ==
    /\ \A newSelection \in SelectionChoices :
          (lastOp' = "setSelection" /\ setSelection(newSelection)) =>
             /\ selection' = newSelection
             /\ thrown' = "none"
             /\ channel =>
                   /\ Cardinality({i \in DOMAIN emitted' :
                                      emitted'[i].ev = "CURRENT_STORY_WAS_SET"}) = 1
                   /\ emitted'[1] = Event("CURRENT_STORY_WAS_SET", "-", newSelection)
                   /\ RenderRequests(emitted') = IF configuring THEN 0 ELSE 1
    /\ (lastOp' = "finishConfiguring" /\ channel) => RenderRequests(emitted') = 1

\* C14 (as claimed): the above, and from a selection set while configuring
\* to the finishConfiguring that follows no call emits a render request.
C14_SelectionRendering ==
    [][/\ SelectionAndFinish
       /\ (awaitingRender /\ channel /\ lastOp' # "finishConfiguring") =>
             RenderRequests(emitted') = 0
      ]_vars

\* C14 (amended): the above, and from a selection set while configuring to
\* the finishConfiguring that follows the only render requests are the ones
\* setError emits, one per call.
C14_SelectionRenderingButErrors ==
    [][/\ SelectionAndFinish
       /\ (awaitingRender /\ channel /\ lastOp' # "finishConfiguring") =>
             RenderRequests(emitted') = IF lastOp' = "setError" THEN 1 ELSE 0
      ]_vars

\* An error was set between a selection made while configuring and the end
\* of the configuring phase, and asked for a render.
C14_Witness ==
    /\ lastOp = "setError"
    /\ channel
    /\ configuring
    /\ awaitingRender
    /\ selection = [storyId |-> "b", viewMode |-> "docs"]
    /\ RenderRequests(emitted) = 1

\* C15: a rendering of a registration that was never rendered before calls
\* the composer once, a rendering of one that was rendered before does not
\* call it, and no other operation calls it, whatever happened in between.
C15_LazyDecorationOnce ==
    [][/\ \A id \in RenderIds :
             (lastOp' = "storyFn" /\ storyFn(id)) =>
                Len(composed') = IF Entry(stories, id).hooks \in invoked THEN 0 ELSE 1
       /\ lastOp' # "storyFn" => composed' = <<>>
      ]_vars

\* A story rendered before was rendered again after configuring ended, its
\* arguments and the global ones were updated and global metadata was
\* added; the composer was not called.
C15_Witness ==
    /\ lastOp = "storyFn"
    /\ composed = <<>>
    /\ ~configuring
    /\ globalArgs = Map1("x", "2")
    /\ globalMetadata.parameters.docsOnly = "true"
    /\ \E i \in DOMAIN stories :
          stories[i].hooks \in invoked /\ stories[i].args = Map1("x", "2")

\* C18 (as claimed): every rendering of a registered story returns normally
\* and passes to the composed function the story's id, kind and name, the
\* parameters getAllParameters gives at that time, the story's hooks, its
\* current args and the current global args.
C18_RenderContext ==
    [][\A id \in RenderIds :
          (lastOp' = "storyFn" /\ storyFn(id)) =>
             /\ thrown' = "none"
             /\ passed' = [id |-> id,
                           kind |-> Entry(stories, id).kind,
                           name |-> Entry(stories, id).name,
                           parameters |-> getAllParameters(id),
                           hooks |-> Entry(stories, id).hooks,
                           args |-> Entry(stories, id).args,
                           globalArgs |-> globalArgs]
      ]_vars

\* C16 (as claimed): a story whose merged global, kind and story parameters
\* have a truthy docsOnly is absent from raw(), getStorybook() and extract().
C16_EffectiveDocsOnly ==
    \A i \in DOMAIN stories :
       Truthy(getAllParameters(stories[i].id).docsOnly) =>
          /\ stories[i].id \notin IdsOf(raw(FALSE))
          /\ ~InStorybook(stories[i].id)
          /\ stories[i].id \notin IdsOf(extract(FALSE))

\* The snapshot is in the order of the custom comparator (by id).
SortedByComparator(x) ==
    \A i, j \in DOMAIN x : i < j => IdRank(x[i].id) < IdRank(x[j].id)

\* The snapshot is in the default order: kinds by their order, the stories
\* of one kind as the table has them.
SortedByKindOrder(x) ==
    \A i, j \in DOMAIN x : i < j =>
       \/ kinds[x[i].kind].order < kinds[x[j].kind].order
       \/ /\ x[i].kind = x[j].kind
          /\ \E m, n \in DOMAIN stories :
                m < n /\ stories[m].id = x[i].id /\ stories[n].id = x[j].id

\* C17 (as claimed): the snapshot is in the custom comparator's order when
\* some story of the table declares options.storySort, wherever it is in
\* the table, and in the default order only when none does.
C17_AnyStorySort ==
    \A x \in {extract(TRUE)} :
       /\ IdsOf(x) = Ids(stories)
       /\ IF \E i \in DOMAIN stories : stories[i].parameters.options = "sort"
          THEN SortedByComparator(x)
          ELSE SortedByKindOrder(x)

\* The first story in table order that has an options object, if there is one.
FirstWithOptions ==
    {i \in DOMAIN stories :
        /\ stories[i].parameters.options # Undefined
        /\ \A j \in 1..(i - 1) : stories[j].parameters.options = Undefined}

\* C17 (amended): the snapshot is in the custom comparator's order when the
\* first story in table order that has an options object declares
\* options.storySort in it, and in the default order otherwise.
C17_FirstOptionsDecide ==
    \A x \in {extract(TRUE)} :
       /\ IdsOf(x) = Ids(stories)
       /\ IF \E i \in FirstWithOptions : stories[i].parameters.options = "sort"
          THEN SortedByComparator(x)
          ELSE SortedByKindOrder(x)

\* The first story has options without storySort, the second declares
\* storySort, and the snapshot is in kind order against the comparator.
C17_Witness ==
    /\ Len(stories) = 2
    /\ stories[1].parameters.options = "noSort"
    /\ stories[2].parameters.options = "sort"
    /\ extract(TRUE)[1].id = "b"
    /\ extract(TRUE)[2].id = "a"

\* The handles the entries of a table hold.
HooksIn(tbl) == {tbl[i].hooks : i \in DOMAIN tbl}

\* C19: addStory for an id the table holds does not throw and cleans no
\* hooks; the table then has one entry for the id, in the old one's place,
\* with a new handle and the initial args of a first registration, whatever
\* updateStoryArgs had made of the old ones; the old handle is in the table
\* no more.  No call cleans a handle that is not in the table, and a handle
\* that left the table never comes back: the replaced handle is out of the
\* reach of remove and removeStoryKind.
C19_OverwriteLeaksHandle ==
    [][/\ \A id \in RenderIds, kind \in KindNames :
             (lastOp' = "addStory" /\ HasStory(id)
                /\ addStory(id, kind, id, RenderParameters, <<>>, FALSE)) =>
                /\ thrown' = "none"
                /\ cleaned' = <<>>
                /\ Len(stories') = Len(stories)
                /\ Cardinality({i \in DOMAIN stories' : stories'[i].id = id}) = 1
                /\ \A i \in DOMAIN stories :
                      IF stories[i].id = id
                      THEN /\ stories'[i].id = id
                           /\ stories'[i].kind = kind
                           /\ stories'[i].hooks = nextHook
                           /\ stories'[i].args = Map1("x", "1")
                      ELSE stories'[i] = stories[i]
                /\ Entry(stories, id).hooks \notin HooksIn(stories')
       /\ \A i \in DOMAIN cleaned' : cleaned'[i] \in HooksIn(stories)
       /\ HooksIn(stories') \subseteq HooksIn(stories) \cup {nextHook}
       /\ nextHook \notin HooksIn(stories)
      ]_vars

\* The first of two stories was registered a second time: it holds the
\* newest handle in its old place, before a story whose args were updated.
C19_Witness ==
    /\ lastOp = "addStory"
    /\ Len(stories) = 2
    /\ nextHook = 3
    /\ stories[1].hooks = 2
    /\ stories[1].args = Map1("x", "1")
    /\ stories[2].args = Map1("x", "2")

\* C20: no call but an addStory for its id changes the decorator sequence a
\* registered story holds, rendered or not: not addKindMetadata or
\* addGlobalMetadata appending to the kind's or the global sequence, not
\* clearGlobalDecorators, not removeStoryKind on another kind.  The first
\* rendering hands the composer the held sequence, whatever the metadata
\* has become; an addStory for the id replaces it by the sequence of the
\* metadata as it is then.
C20_DecoratorSnapshot ==
    [][/\ (lastOp' # "addStory" /\ HasStory("a")) =>
             /\ "a" \in Ids(stories')
             /\ Entry(stories', "a").decorators = Entry(stories, "a").decorators
       /\ (lastOp' = "storyFn" /\ Entry(stories, "a").hooks \notin invoked) =>
             composed' = <<Entry(stories, "a").decorators>>
       /\ \A d \in {<<>>, <<"s1">>} :
             (lastOp' = "addStory" /\ addStory("a", "K1", "a", NoParameters, d, FALSE)) =>
                Entry(stories', "a").decorators =
                   d \o KindDecorators("K1") \o globalMetadata.decorators
      ]_vars

\* A story registered under one decorator of each scope was first rendered
\* after its kind was given another decorator and the global ones were
\* cleared: the composer got the three of the registration.
C20_Witness ==
    /\ lastOp = "storyFn"
    /\ composed = << <<"s1", "k1", "g1">> >>
    /\ globalMetadata.decorators = <<>>
    /\ kinds["K1"].decorators = <<"k1", "k1">>
    /\ "K2" \in DOMAIN kinds

====
